---- MODULE Spec2Model ----
(***************************************************************************)
(* Booking back end of the experience-booking platform: the createBooking, *)
(* cancelBooking, validatePromoCode and getBookingByReference handlers of  *)
(* booking.controller.js over the TimeSlot, PromoCode and Booking Mongoose *)
(* models.                                                                 *)
(*                                                                         *)
(* The handlers run as concurrent requests. createBooking and              *)
(* cancelBooking each open a MongoDB session and transaction: their reads  *)
(* come from the snapshot taken by the first read, their saves stay        *)
(* private until commitTransaction, and a save of a document that another  *)
(* open transaction has written, or that was committed after the snapshot, *)
(* is rejected with a WriteConflict.  Every awaited storage call may also  *)
(* reject with a storage error.                                            *)
(*                                                                         *)
(* Mongoose runs a document's validation before the schema's own           *)
(* pre('save') hooks: save() validates first, then runs the hooks, then    *)
(* writes.                                                                 *)
(***************************************************************************)
EXTENDS Integers, Sequences, FiniteSets, TLC

(* ----------------------------- bounds --------------------------------- *)
NumReq == 2          \* concurrent requests
Capacity == 2        \* totalCapacity of the slot
MaxGuests == 2       \* largest party size that is tried besides the limits

(* ------------------------- program constants -------------------------- *)
MinGuestsPerBooking == 1
MaxGuestsPerBooking == 20
NullLimit == 0 - 1   \* usageLimit.total: null means unlimited
NullAmount == 0 - 1  \* maximumDiscountAmount, specialPrice: null means not set

Reqs == 1..NumReq
Users == {"u1@x.io", "u2@x.io"}
NoCode == "-"
PromoName == "SAVE10"
NoRef == "-"
Refs == {"B1", "R1", "R2"}
Statuses == {"pending", "confirmed", "cancelled", "completed", "refunded"}
SlotId == "s1"
OwnerExperience == "e1"

VARIABLES
    db,            \* the committed documents: the slot, the promo code, the bookings
    db0,           \* the documents at the start
    pastDeadline,  \* the current time is after the slot's cancellationDeadline
    pc,            \* where each request's handler stands
    req,           \* each request's input
    snap,          \* the snapshot each open transaction reads from
    mem,           \* each handler's documents in memory, as it has changed them
    written,       \* the documents each open transaction has written
    stale,         \* the documents committed by others since each snapshot
    res            \* each request's answer

vars == <<db, db0, pastDeadline, pc, req, snap, mem, written, stale, res>>

(* ------------------------------ documents ----------------------------- *)
\* Amounts are whole numbers of the currency's smallest unit.
NoPricing == [basePrice |-> 0, totalAmount |-> 0, discountAmount |-> 0,
              finalAmount |-> 0, currency |-> "INR"]

\* booking.promoCode besides its code: null when no code was applied.
NoPromoCode == [discountType |-> "-", discountValue |-> 0]

\* booking.cancellationDetails: unset until the booking is cancelled.
NoCancellation == [cancelledAt |-> "-", cancelledBy |-> "-", cancellationReason |-> "-"]

NoBooking == [exists |-> FALSE, guests |-> 0, status |-> "pending",
              code |-> NoCode, user |-> "-", reference |-> NoRef,
              pricing |-> NoPricing, promoCode |-> NoPromoCode,
              cancellationDetails |-> NoCancellation]

\* Experience documents: isActive defaults to true.
Experiences == [e1 |-> [isActive |-> TRUE],
                e2 |-> [isActive |-> FALSE],
                e3 |-> [isActive |-> TRUE]]

ExperienceExists(e) == e \in DOMAIN Experiences

\* timeSlotSchema.virtual('availableSpots')
Max(a, b) == IF a >= b THEN a ELSE b

availableSpots(slot) == Max(0, slot.totalCapacity - slot.bookedSlots)

\* timeSlotSchema.virtual('isFullyBooked')
isFullyBooked(slot) == slot.bookedSlots >= slot.totalCapacity

\* timeSlotSchema.virtual('effectivePrice'): specialPrice || price, where a
\* specialPrice of null or 0 counts as not given.
effectivePrice(slot) ==
    IF slot.specialPrice # NullAmount /\ slot.specialPrice # 0
      THEN slot.specialPrice ELSE slot.price

\* timeSlotSchema.pre('save'): the document as the hook leaves it, and whether
\* the hook rejects the save.
SlotPreSaveKeepsFlag(slot) == slot

SlotPreSave(slot) == [slot EXCEPT !.isAvailable = ~(slot.bookedSlots >= slot.totalCapacity)]

SlotPreSaveRejects(slot) == slot.bookedSlots > slot.totalCapacity

(* ---------------------------- promo code ------------------------------ *)
\* The promo codes considered have a validity period that contains the
\* current time and no order-value, category, experience, day or time
\* restriction; their active flag, limits and usage counters vary.

\* promoCodeSchema.virtual('isCurrentlyValid')
isCurrentlyValidUpTo(promo) ==
    /\ promo.isActive
    /\ (promo.limitTotal = NullLimit \/ promo.total <= promo.limitTotal)

isCurrentlyValid(promo) ==
    /\ promo.isActive
    /\ (promo.limitTotal = NullLimit \/ promo.total < promo.limitTotal)

\* promoCodeSchema.methods.validateForUser: the list of errors.
validateForUser(promo, userEmail) ==
    (IF ~isCurrentlyValid(promo)
       THEN IF ~promo.isActive
              THEN <<"Promo code is inactive">>
              ELSE IF promo.limitTotal # NullLimit /\ promo.total >= promo.limitTotal
                     THEN <<"Promo code usage limit reached">>
                     ELSE <<>>
       ELSE <<>>)
    \o
    (IF promo.byUser[userEmail] > 0 /\ promo.byUser[userEmail] >= promo.perUser
       THEN <<"You have already used this promo code the maximum number of times">>
       ELSE <<>>)

\* promoCodeSchema.methods.usePromoCode: the document it saves.
usePromoCode(promo, userEmail) ==
    [promo EXCEPT !.total = @ + 1, !.byUser[userEmail] = @ + 1]

Min(a, b) == IF a <= b THEN a ELSE b

\* Math.round(n / d) for n >= 0 and d > 0: the nearest whole number, halves up.
Round(n, d) == (2 * n + d) \div (2 * d)

\* promoCodeSchema.methods.calculateDiscount.  The amount is carried in
\* hundredths of the unit until the final Math.round(x * 100) / 100, which
\* cuts it to the unit; a maximumDiscountAmount of null or 0 is falsy and
\* leaves the amount as it is.
calculateDiscountUnclamped(promo, orderValue) ==
    IF promo.discountType = "percentage"
      THEN Round(orderValue * promo.discountValue, 100)
      ELSE promo.discountValue

calculateDiscount(promo, orderValue) ==
    LET raw == IF promo.discountType = "percentage"
                 THEN orderValue * promo.discountValue
                 ELSE promo.discountValue * 100
        capped == IF /\ promo.maximumDiscountAmount # NullAmount
                     /\ promo.maximumDiscountAmount # 0
                     /\ raw > promo.maximumDiscountAmount * 100
                    THEN promo.maximumDiscountAmount * 100
                    ELSE raw
    IN  Round(Min(capped, orderValue * 100), 100)

(* ------------------------------ booking ------------------------------- *)
\* The pricing createBooking works out (lines 85-121): the slot's effective
\* price times the guests, less the promo code's discount.
BookingPricing(q, slot, promo) ==
    LET basePrice == effectivePrice(slot)
        totalAmount == basePrice * q.guests
        discountAmount == IF q.code # NoCode
                            THEN calculateDiscount(promo, totalAmount) ELSE 0
    IN  [basePrice |-> basePrice, totalAmount |-> totalAmount,
         discountAmount |-> discountAmount,
         finalAmount |-> totalAmount - discountAmount, currency |-> "INR"]

\* new Booking({...}) in createBooking: no bookingReference and no status is
\* passed, so the reference is unset and the status takes the schema default.
NewBooking(q, slot, promo) ==
    [exists |-> TRUE, guests |-> q.guests, status |-> "pending",
     code |-> q.code, user |-> q.user, reference |-> NoRef,
     pricing |-> BookingPricing(q, slot, promo),
     promoCode |-> IF q.code # NoCode
                     THEN [discountType |-> promo.discountType,
                           discountValue |-> promo.discountValue]
                     ELSE NoPromoCode,
     cancellationDetails |-> NoCancellation]

\* Validation of a booking document: bookingReference is required.
BookingValid(doc) == doc.reference # NoRef

\* bookingSchema.pre('save'): generates a reference for a new document that
\* has none (gen is the generated text), and works out finalAmount again when
\* pricing is modified, as it is in a new document and is not in a
\* cancellation.
BookingPreSave(doc, gen, isNew) ==
    [doc EXCEPT !.reference = IF isNew /\ doc.reference = NoRef THEN gen ELSE @,
                !.pricing.finalAmount =
                    IF isNew
                      THEN doc.pricing.totalAmount - doc.pricing.discountAmount
                      ELSE @]

\* bookingSchema.methods.cancelBooking: the document it saves.
BookingCancelledNoDetails(doc, reason) == [doc EXCEPT !.status = "cancelled"]

BookingCancelledRefunded(doc, reason) ==
    [doc EXCEPT !.status = "cancelled",
                !.cancellationDetails = [cancelledAt |-> "now", cancelledBy |-> "user",
                                         cancellationReason |-> reason],
                !.pricing.finalAmount = 0]

BookingCancelled(doc, reason) ==
    [doc EXCEPT !.status = "cancelled",
                !.cancellationDetails = [cancelledAt |-> "now", cancelledBy |-> "user",
                                         cancellationReason |-> reason]]

(* --------------------------- transactions ----------------------------- *)
\* The documents, by name: the slot, the promo code and each booking.
Docs == {"slot", "promo"} \cup Refs

Doc(state, d) ==
    IF d = "slot" THEN state.slot
    ELSE IF d = "promo" THEN state.promo
    ELSE state.bookings[d]

Active(q) == pc[q] \notin {"idle", "done"}

\* A save of document d in r's transaction is rejected with a WriteConflict
\* when d was committed after r's snapshot or is written by another open
\* transaction.
WriteConflictNever(r, d) == FALSE

WriteConflict(r, d) ==
    \/ d \in stale[r]
    \/ \E q \in Reqs \ {r} : Active(q) /\ d \in written[q]

NoMem == [slot |-> [totalCapacity |-> 0, bookedSlots |-> 0, isAvailable |-> FALSE,
                    price |-> 0, specialPrice |-> NullAmount],
          promo |-> [isActive |-> FALSE, limitTotal |-> NullLimit, perUser |-> 1,
                     total |-> 0, byUser |-> [u \in Users |-> 0],
                     discountType |-> "percentage", discountValue |-> 0,
                     maximumDiscountAmount |-> NullAmount],
          bookings |-> [b \in Refs |-> NoBooking],
          ref |-> NoRef]

NoRes == [status |-> 0, kind |-> "-", errors |-> <<>>, seen |-> "-"]

\* The handler answers: the session is ended and the transaction, if still
\* open, is aborted, which drops its writes.
Respond(r, status, kind, errors) ==
    /\ pc' = [pc EXCEPT ![r] = "done"]
    /\ res' = [res EXCEPT ![r] = [status |-> status, kind |-> kind,
                                  errors |-> errors, seen |-> "-"]]
    /\ mem' = [mem EXCEPT ![r] = NoMem]
    /\ snap' = [snap EXCEPT ![r] = NoMem]
    /\ written' = [written EXCEPT ![r] = {}]
    /\ stale' = [stale EXCEPT ![r] = {}]

\* catch (error) { await session.abortTransaction(); throw ... }
Abort(r, status, kind, errors) ==
    /\ Respond(r, status, kind, errors)
    /\ UNCHANGED <<db, db0, pastDeadline>>

\* A handler without a transaction answers.
Answer(r, status, kind, errors) == Abort(r, status, kind, errors)

\* A rejected awaited call that would be tried again: the handler starts over.
InternalErrorRetry(r, message) ==
    /\ pc' = [pc EXCEPT ![r] = "idle"]
    /\ mem' = [mem EXCEPT ![r] = NoMem]
    /\ snap' = [snap EXCEPT ![r] = NoMem]
    /\ written' = [written EXCEPT ![r] = {}]
    /\ stale' = [stale EXCEPT ![r] = {}]
    /\ UNCHANGED <<db, db0, pastDeadline, res>>

\* A rejected awaited call: a non-ApiError, answered as 500 with its message.
InternalError(r, message) == Abort(r, 500, "internal", <<message>>)

(* ------------------------------ requests ------------------------------ *)
\* Request bodies of createBooking: the well-formed ones on the slot, and one
\* body for each way the request can be turned down before any write.
GoodCreates ==
    {[op |-> "create", experienceId |-> OwnerExperience, timeSlotId |-> SlotId,
      user |-> "u1@x.io", guests |-> g, code |-> NoCode, ref |-> NoRef] :
        g \in 1..MaxGuests}
    \cup {[op |-> "create", experienceId |-> OwnerExperience, timeSlotId |-> SlotId,
           user |-> u, guests |-> 1, code |-> PromoName, ref |-> NoRef] : u \in Users}
    \cup {[op |-> "create", experienceId |-> OwnerExperience, timeSlotId |-> SlotId,
           user |-> "u2@x.io", guests |-> MaxGuests, code |-> PromoName, ref |-> NoRef]}

BaseCreate ==
    [op |-> "create", experienceId |-> OwnerExperience, timeSlotId |-> SlotId,
     user |-> "u1@x.io", guests |-> 1, code |-> NoCode, ref |-> NoRef]

CreateInputs == GoodCreates

CancelInputs == {[BaseCreate EXCEPT !.op = "cancel", !.ref = "B1", !.guests = 0]}

ValidateInputs ==
    {[BaseCreate EXCEPT !.op = "validate", !.code = PromoName, !.guests = 0]}

GetInputs == {[BaseCreate EXCEPT !.op = "get", !.ref = "B1", !.guests = 0]}

NoReq == [BaseCreate EXCEPT !.op = "-", !.guests = 0]

\* The snapshot a transaction reads from, taken by its first read.
Snapshot == [slot |-> db.slot, promo |-> db.promo, bookings |-> db.bookings, ref |-> NoRef]

\* Requests are numbered in their order of arrival.
Arrives(r) == pc[r] = "idle" /\ \A q \in Reqs : q < r => pc[q] # "idle"

Begin(r, q, nextPc) ==
    /\ pc' = [pc EXCEPT ![r] = nextPc]
    /\ mem' = [mem EXCEPT ![r] = Snapshot]
    /\ snap' = [snap EXCEPT ![r] = Snapshot]
    /\ written' = [written EXCEPT ![r] = {}]
    /\ stale' = [stale EXCEPT ![r] = {}]
    /\ UNCHANGED <<db, db0, pastDeadline, res>>

(* --------------------------- createBooking ---------------------------- *)
\* The capacity check (line 75).
EnoughSpotsAlways(slot, n) == TRUE

EnoughSpots(slot, n) == ~(availableSpots(slot) < n)

\* The request's checks up to the booking deadline (lines 23-83): the error
\* it is turned down with, or "-" when it passes them all.
CreateRejection(q) ==
    IF q.guests = 0 THEN <<400, "validation", "Missing required booking information">>
    ELSE IF q.guests < MinGuestsPerBooking \/ q.guests > MaxGuestsPerBooking
      THEN <<400, "validation", "Number of guests must be between 1 and 20">>
    ELSE IF ~ExperienceExists(q.experienceId)
      THEN <<404, "not_found", "Experience not found">>
    ELSE IF ~Experiences[q.experienceId].isActive
      THEN <<400, "experience_inactive", "Experience is not currently available">>
    ELSE IF q.timeSlotId # SlotId
      THEN <<404, "not_found", "Time slot not found">>
    ELSE IF ~db.slot.isAvailable
      THEN <<400, "unavailable", "Time slot is not available">>
    ELSE IF q.experienceId # OwnerExperience
      THEN <<400, "wrong_experience", "Time slot does not belong to the selected experience">>
    ELSE IF ~EnoughSpots(db.slot, q.guests)
      THEN <<400, "insufficient_capacity", "Only n spots available">>
    ELSE IF pastDeadline
      THEN <<400, "deadline", "Booking deadline has passed for this time slot">>
    ELSE <<0, "-", "-">>

\* createBooking up to its first write: input validation, startTransaction,
\* the reads of the experience and the slot, and the checks on them.
CreateLoad(r) ==
    /\ Arrives(r)
    /\ \E q \in CreateInputs :
         /\ req' = [req EXCEPT ![r] = q]
         /\ \/ /\ q.guests \in MinGuestsPerBooking..MaxGuestsPerBooking
               /\ InternalError(r, "storage error")
            \/ LET e == CreateRejection(q) IN
               IF e[1] # 0
                 THEN Abort(r, e[1], e[2], <<e[3]>>)
                 ELSE Begin(r, q, IF q.code # NoCode THEN "promo" ELSE "saveBooking")

\* this.save() in usePromoCode: the document was found with the session
\* (line 93), so the save is a write of the transaction.
PromoSaveNoSession(r, doc) ==
    /\ mem' = [mem EXCEPT ![r].promo = doc]
    /\ written' = [written EXCEPT ![r] = @ \cup {"promo"}]
    /\ db' = [db EXCEPT !.promo = doc]

PromoSave(r, doc) ==
    /\ mem' = [mem EXCEPT ![r].promo = doc]
    /\ written' = [written EXCEPT ![r] = @ \cup {"promo"}]
    /\ UNCHANGED db

\* The promo branch (lines 92-119): findByCode, validateForUser, usePromoCode.
CreatePromo(r) ==
    /\ pc[r] = "promo"
    /\ UNCHANGED req
    /\ \/ InternalError(r, "storage error")
       \/ IF req[r].code # PromoName
            THEN Abort(r, 400, "promo_invalid", <<"Invalid promo code">>)
            ELSE LET errors == validateForUser(mem[r].promo, req[r].user) IN
                 IF errors # <<>>
                   THEN Abort(r, 400, "promo_invalid", errors)
                   ELSE IF WriteConflict(r, "promo")
                     THEN InternalError(r, "WriteConflict")
                     ELSE /\ PromoSave(r, usePromoCode(mem[r].promo, req[r].user))
                          /\ pc' = [pc EXCEPT ![r] = "saveBooking"]
                          /\ UNCHANGED <<db0, pastDeadline, snap, stale, res>>

\* booking.save({ session }) (lines 123-152): validation, then the pre('save')
\* hook, then the insert under the unique index on bookingReference.
CreateSaveBooking(r) ==
    /\ pc[r] = "saveBooking"
    /\ UNCHANGED req
    /\ \/ InternalError(r, "storage error")
       \/ LET doc == NewBooking(req[r], mem[r].slot, mem[r].promo) IN
          IF ~BookingValid(doc)
            THEN InternalError(r, "Booking validation failed")
            ELSE \E gen \in Refs :
                   LET saved == BookingPreSave(doc, gen, TRUE) IN
                   IF mem[r].bookings[saved.reference].exists
                        \/ WriteConflict(r, saved.reference)
                     THEN InternalError(r, "duplicate key")
                     ELSE /\ mem' = [mem EXCEPT ![r].bookings[saved.reference] = saved,
                                                ![r].ref = saved.reference]
                          /\ written' = [written EXCEPT ![r] = @ \cup {saved.reference}]
                          /\ pc' = [pc EXCEPT ![r] = "saveSlot"]
                          /\ UNCHANGED <<db, db0, pastDeadline, snap, stale, res>>

(* --------------------------- cancelBooking ---------------------------- *)
\* cancelBooking up to its first write (lines 286-317): the reads of the
\* booking and its slot, and the checks on them.
CancelRejectionNoDeadline(q) ==
    IF ~db.bookings[q.ref].exists THEN <<404, "not_found", "Booking not found">>
    ELSE IF db.bookings[q.ref].status = "cancelled"
      THEN <<400, "already_cancelled", "Booking is already cancelled">>
    ELSE IF db.bookings[q.ref].status = "completed"
      THEN <<400, "completed", "Cannot cancel completed booking">>
    ELSE <<0, "-", "-">>

CancelRejection(q) ==
    IF ~db.bookings[q.ref].exists THEN <<404, "not_found", "Booking not found">>
    ELSE IF db.bookings[q.ref].status = "cancelled"
      THEN <<400, "already_cancelled", "Booking is already cancelled">>
    ELSE IF db.bookings[q.ref].status = "completed"
      THEN <<400, "completed", "Cannot cancel completed booking">>
    ELSE IF pastDeadline
      THEN <<400, "deadline", "Cancellation deadline has passed">>
    ELSE <<0, "-", "-">>

CancelLoad(r) ==
    /\ Arrives(r)
    /\ \E q \in CancelInputs :
         /\ req' = [req EXCEPT ![r] = q]
         /\ \/ InternalError(r, "storage error")
            \/ LET e == CancelRejection(q) IN
               IF e[1] # 0
                 THEN Abort(r, e[1], e[2], <<e[3]>>)
                 ELSE /\ Begin(r, q, "cancelBooking")

\* booking.cancelBooking(reason) (line 320): status cancelled, then save.
CancelSaveBooking(r) ==
    /\ pc[r] = "cancelBooking"
    /\ UNCHANGED req
    /\ \/ InternalError(r, "storage error")
       \/ LET doc == BookingCancelled(mem[r].bookings[req[r].ref], "User cancellation") IN
          IF ~BookingValid(doc)
            THEN InternalError(r, "Booking validation failed")
            ELSE IF WriteConflict(r, req[r].ref)
              THEN InternalError(r, "WriteConflict")
              ELSE /\ mem' = [mem EXCEPT ![r].bookings[req[r].ref] =
                                             BookingPreSave(doc, NoRef, FALSE),
                                         ![r].ref = req[r].ref]
                   /\ written' = [written EXCEPT ![r] = @ \cup {req[r].ref}]
                   /\ pc' = [pc EXCEPT ![r] = "saveSlot"]
                   /\ UNCHANGED <<db, db0, pastDeadline, snap, stale, res>>

(* ------------------------- the slot's counter ------------------------- *)
\* timeSlotSchema.methods.bookSlots: whether it throws, and the document it
\* hands to save().
bookSlotsThrows(slot, n) == availableSpots(slot) < n

bookSlots(slot, n) == [slot EXCEPT !.bookedSlots = @ + n]

\* timeSlotSchema.methods.cancelBooking: the same for a release.
cancelSlotsNeverThrows(slot, n) == FALSE

cancelSlotsThrows(slot, n) == slot.bookedSlots < n

cancelSlotsByOne(slot, n) == [slot EXCEPT !.bookedSlots = @ - 1]

cancelSlots(slot, n) == [slot EXCEPT !.bookedSlots = @ - n]

\* The slot update that follows the booking write: timeSlot.bookSlots(n) in
\* createBooking (line 155), timeSlot.cancelBooking(n) in cancelBooking
\* (line 323); n is the booking's numberOfGuests.
TimeSlotSave(r) ==
    /\ pc[r] = "saveSlot"
    /\ UNCHANGED req
    /\ LET n == mem[r].bookings[mem[r].ref].guests
           throws == IF req[r].op = "create"
                       THEN bookSlotsThrows(mem[r].slot, n)
                       ELSE cancelSlotsThrows(mem[r].slot, n)
           doc == IF req[r].op = "create"
                    THEN bookSlots(mem[r].slot, n)
                    ELSE cancelSlots(mem[r].slot, n)
       IN  IF throws
             THEN InternalError(r, IF req[r].op = "create"
                                     THEN "Not enough available spots"
                                     ELSE "Cannot cancel more slots than booked")
             ELSE IF SlotPreSaveRejects(doc)
               THEN InternalError(r, "Booked slots cannot exceed total capacity")
               ELSE \/ InternalError(r, "storage error")
                    \/ IF WriteConflict(r, "slot")
                         THEN InternalError(r, "WriteConflict")
                         ELSE /\ mem' = [mem EXCEPT ![r].slot = SlotPreSave(doc)]
                              /\ written' = [written EXCEPT ![r] = @ \cup {"slot"}]
                              /\ pc' = [pc EXCEPT ![r] = "commit"]
                              /\ UNCHANGED <<db, db0, pastDeadline, snap, stale, res>>

(* ------------------------------ commit -------------------------------- *)
\* The committed state once r's transaction commits: its writes replace the
\* documents they are writes of.
Committed(r) ==
    [slot |-> IF "slot" \in written[r] THEN mem[r].slot ELSE db.slot,
     promo |-> IF "promo" \in written[r] THEN mem[r].promo ELSE db.promo,
     bookings |-> [b \in Refs |-> IF b \in written[r]
                                    THEN mem[r].bookings[b] ELSE db.bookings[b]]]

\* session.commitTransaction() and the answer (lines 158-188, 325-341).  In
\* createBooking the booking is populated after the commit; when that call
\* rejects, the catch block's abortTransaction finds the transaction
\* committed and the caller gets an error.
CommitTransaction(r) ==
    /\ pc[r] = "commit"
    /\ UNCHANGED req
    /\ \/ InternalError(r, "storage error")
       \/ /\ db' = Committed(r)
          /\ pc' = [pc EXCEPT ![r] = "done"]
          /\ \E populated \in BOOLEAN :
               res' = [res EXCEPT ![r] =
                         IF req[r].op = "cancel"
                           THEN [status |-> 200, kind |-> "ok", errors |-> <<>>,
                                 seen |-> mem[r].ref]
                           ELSE IF populated
                             THEN [status |-> 201, kind |-> "ok", errors |-> <<>>,
                                   seen |-> mem[r].ref]
                             ELSE [status |-> 500, kind |-> "internal",
                                   errors |-> <<"populate failed after commit">>,
                                   seen |-> mem[r].ref]]
          /\ stale' = [q \in Reqs |-> IF q # r /\ Active(q)
                                        THEN stale[q] \cup written[r] ELSE {}]
          /\ mem' = [mem EXCEPT ![r] = NoMem]
          /\ snap' = [snap EXCEPT ![r] = NoMem]
          /\ written' = [written EXCEPT ![r] = {}]
          /\ UNCHANGED <<db0, pastDeadline>>

(* ----------------------- reads outside transactions ------------------- *)
\* validatePromoCode (lines 347-430): reads the committed promo code and
\* answers with what validateForUser finds.
ValidatePromoCode(r) ==
    /\ Arrives(r)
    /\ \E q \in ValidateInputs :
         /\ req' = [req EXCEPT ![r] = q]
         /\ LET errors == validateForUser(db.promo, q.user) IN
            IF ~db.promo.isActive
              THEN Answer(r, 400, "promo_invalid", <<"Promo code is inactive">>)
              ELSE IF errors # <<>>
                THEN Answer(r, 400, "promo_invalid", errors)
                ELSE Answer(r, 200, "ok", <<>>)

\* getBookingByReference (lines 194-221): reads the committed booking and
\* answers with it.
GetBookingByReference(r) ==
    /\ Arrives(r)
    /\ \E q \in GetInputs :
         /\ req' = [req EXCEPT ![r] = q]
         /\ IF ~db.bookings[q.ref].exists
              THEN Answer(r, 404, "not_found", <<"Booking not found">>)
              ELSE Answer(r, 200, "ok", <<db.bookings[q.ref].status>>)

\* The slot's cancellationDeadline passes.
DeadlinePasses ==
    /\ ~pastDeadline
    /\ pastDeadline' = TRUE
    /\ UNCHANGED <<db, db0, pc, req, snap, mem, written, stale, res>>

(* ------------------------------ the system ---------------------------- *)
SlotPrice == 1000

InitSlots ==
    {[totalCapacity |-> Capacity, bookedSlots |-> b, isAvailable |-> b < Capacity,
      price |-> SlotPrice, specialPrice |-> NullAmount] :
        b \in 0..Capacity}

\* Promo codes as the database may hold them: unused or used once by u1,
\* with or without a total limit, active or not.
InitPromos ==
    {[isActive |-> x[1], limitTotal |-> x[2], perUser |-> x[3], total |-> x[4],
      byUser |-> [u \in Users |-> IF u = "u1@x.io" THEN x[4] ELSE 0],
      discountType |-> "percentage", discountValue |-> 10,
      maximumDiscountAmount |-> NullAmount] :
        x \in {<<TRUE, 1, 1, 0>>, <<TRUE, NullLimit, 1, 1>>, <<TRUE, 1, 2, 1>>,
               <<FALSE, 1, 1, 1>>}}

\* Bookings the database may hold at the start: none, or one on the slot.
InitBooking(g, s) ==
    [b \in Refs |-> IF b = "B1"
                      THEN [exists |-> TRUE, guests |-> g, status |-> s,
                            code |-> NoCode, user |-> "u1@x.io", reference |-> "B1",
                            pricing |-> [NoPricing EXCEPT
                                           !.basePrice = SlotPrice,
                                           !.totalAmount = SlotPrice * g,
                                           !.finalAmount = SlotPrice * g],
                            promoCode |-> NoPromoCode,
                            cancellationDetails |->
                              IF s = "cancelled"
                                THEN [cancelledAt |-> "before", cancelledBy |-> "user",
                                      cancellationReason |-> "User cancellation"]
                                ELSE NoCancellation]
                      ELSE NoBooking]

InitBookings ==
    {[b \in Refs |-> NoBooking]}
    \cup {InitBooking(g, "confirmed") : g \in 1..MaxGuests}
    \cup {InitBooking(1, s) : s \in Statuses}

\* The booking of the start that is still pending was made with the promo
\* code when the promo code has a use by its user on record.
InitWithCode(bookings, slot, promo) ==
    LET b == bookings["B1"] IN
    IF b.exists /\ b.status = "pending" /\ promo.byUser[b.user] >= 1
      THEN [bookings EXCEPT !["B1"] =
              [NewBooking([guests |-> b.guests, code |-> PromoName, user |-> b.user],
                          slot, promo)
                 EXCEPT !.reference = "B1"]]
      ELSE bookings

Init ==
    /\ \E slot \in InitSlots, promo \in InitPromos, bookings \in InitBookings :
         db = [slot |-> slot, promo |-> promo,
               bookings |-> InitWithCode(bookings, slot, promo)]
    /\ db0 = db
    /\ pastDeadline = FALSE
    /\ pc = [r \in Reqs |-> "idle"]
    /\ req = [r \in Reqs |-> NoReq]
    /\ mem = [r \in Reqs |-> NoMem]
    /\ snap = [r \in Reqs |-> NoMem]
    /\ written = [r \in Reqs |-> {}]
    /\ stale = [r \in Reqs |-> {}]
    /\ res = [r \in Reqs |-> NoRes]

Next ==
    \/ \E r \in Reqs : CreateLoad(r)
    \/ \E r \in Reqs : CreatePromo(r)
    \/ \E r \in Reqs : CreateSaveBooking(r)
    \/ \E r \in Reqs : CancelLoad(r)
    \/ \E r \in Reqs : CancelSaveBooking(r)
    \/ \E r \in Reqs : TimeSlotSave(r)
    \/ \E r \in Reqs : CommitTransaction(r)
    \/ \E r \in Reqs : ValidatePromoCode(r)
    \/ \E r \in Reqs : GetBookingByReference(r)
    \/ DeadlinePasses

Spec == Init /\ [][Next]_vars

(* ------------------------- changes of the catalog --------------------- *)
\* The slot's price and the promo code's discount are changed from outside
\* the handlers, as a re-pricing of the catalog does: a committed write of
\* the document, which no open transaction has written.
NewSlotPrice == 1200

NewDiscountValue == 20

Unwritten(d) == \A q \in Reqs : Active(q) => d \notin written[q]

CatalogWrite(d, state) ==
    /\ Unwritten(d)
    /\ db' = state
    /\ stale' = [q \in Reqs |-> IF Active(q) THEN stale[q] \cup {d} ELSE stale[q]]
    /\ UNCHANGED <<db0, pastDeadline, pc, req, snap, mem, written, res>>

SlotPriceChanges ==
    /\ db.slot.price = SlotPrice
    /\ CatalogWrite("slot", [db EXCEPT !.slot.price = NewSlotPrice])

PromoChanges ==
    /\ db.promo.discountValue # NewDiscountValue
    /\ CatalogWrite("promo", [db EXCEPT !.promo.discountValue = NewDiscountValue])

\* The database holds a booking that can be cancelled, on a slot with one
\* spot left, and a promo code in use; bookings are made and cancelled while
\* the catalog changes.
CatalogInit ==
    /\ Init
    /\ db.slot.bookedSlots = Capacity - 1
    /\ db.bookings["B1"].status \in {"pending", "confirmed"}
    /\ db.bookings["B1"].exists
    /\ db.promo.isActive /\ db.promo.limitTotal = NullLimit

CatalogNext ==
    \/ \E r \in Reqs : CreateLoad(r)
    \/ \E r \in Reqs : CreatePromo(r)
    \/ \E r \in Reqs : CreateSaveBooking(r)
    \/ \E r \in Reqs : CancelLoad(r)
    \/ \E r \in Reqs : CancelSaveBooking(r)
    \/ \E r \in Reqs : TimeSlotSave(r)
    \/ \E r \in Reqs : CommitTransaction(r)
    \/ SlotPriceChanges
    \/ PromoChanges

CatalogSpec == CatalogInit /\ [][CatalogNext]_vars

(* --------------------------- the price shown -------------------------- *)
\* The pricing code reads no stored state.  It is applied here to bounded
\* inputs: a promo code's discount parameters, a base price and a party
\* size; the handlers' variables stay empty.
TaxPercent == 10

\* promoService.calculateDiscount of the checkout page (api.ts 749-763), for
\* an applied (valid) promo code, in hundredths of the unit: no rounding, and
\* maxDiscount only limits a percentage discount.
promoServiceCalculateDiscount(promo, subtotal) ==
    LET discount == IF promo.discountType = "percentage"
                      THEN IF promo.maximumDiscountAmount # NullAmount
                                /\ promo.maximumDiscountAmount # 0
                             THEN Min(subtotal * promo.discountValue,
                                      promo.maximumDiscountAmount * 100)
                             ELSE subtotal * promo.discountValue
                      ELSE promo.discountValue * 100
    IN  Min(discount, subtotal * 100)

\* CheckoutPage (page.tsx 175-178): subtotal, discount, tax and total, the
\* discount, the tax and the total in hundredths of the unit.
CheckoutPage(basePrice, numberOfGuests, promo, applied) ==
    LET subtotal == basePrice * numberOfGuests
        discount == IF applied THEN promoServiceCalculateDiscount(promo, subtotal) ELSE 0
        tax == ((subtotal * 100 - discount) * TaxPercent) \div 100
    IN  [subtotal |-> subtotal, discount |-> discount, tax |-> tax,
         total |-> subtotal * 100 - discount + tax]

\* bookingService.createBooking of the front end (api.ts 614-618): the tax is
\* taken on the subtotal and no discount is applied.
bookingServicePricing(basePrice, numberOfGuests) ==
    LET subtotal == basePrice * numberOfGuests
        tax == (subtotal * 100 * TaxPercent) \div 100
    IN  [subtotal |-> subtotal, tax |-> tax, total |-> subtotal * 100 + tax]

PriceInputs ==
    {q \in [discountType : {"percentage", "fixed"},
            discountValue : {0, 10, 33, 100, 200, 5000},
            maximumDiscountAmount : {NullAmount, 0, 50},
            basePrice : {0, 10, 1000},
            guests : 1..MaxGuests,
            applied : BOOLEAN] :
        /\ q.discountType = "percentage" => q.discountValue <= 100
        /\ ~q.applied => (q.discountValue = 0 /\ q.maximumDiscountAmount = NullAmount
                          /\ q.discountType = "fixed")}

NoPrice == [op |-> "-"]

PriceInit ==
    /\ req \in PriceInputs
    /\ res = NoPrice
    /\ pc = "idle"
    /\ db = NoMem /\ db0 = NoMem /\ mem = NoMem /\ snap = NoMem
    /\ pastDeadline = FALSE /\ written = {} /\ stale = {}

PriceDone(result) ==
    /\ pc' = "done"
    /\ res' = result
    /\ UNCHANGED <<db, db0, pastDeadline, req, snap, mem, written, stale>>

\* validatePromoCode: calculateDiscount(orderValue) (controller line 399).
ApplyCalculateDiscount ==
    /\ pc = "idle" /\ req.applied
    /\ PriceDone([op |-> "calculateDiscount",
                  orderValue |-> req.basePrice * req.guests,
                  discountAmount |->
                      calculateDiscount(req, req.basePrice * req.guests)])

\* createBooking: the pricing of the booking it builds (controller 85-141).
ApplyBookingPricing ==
    /\ pc = "idle"
    /\ PriceDone([op |-> "createBooking",
                  pricing |-> BookingPricing(
                      [guests |-> req.guests,
                       code |-> IF req.applied THEN PromoName ELSE NoCode],
                      [price |-> req.basePrice, specialPrice |-> NullAmount], req)])

\* The checkout page renders its summary.
ApplyCheckoutPage ==
    /\ pc = "idle"
    /\ PriceDone([op |-> "checkout",
                  summary |-> CheckoutPage(req.basePrice, req.guests, req, req.applied)])

\* The front end's booking service prices the booking.
ApplyBookingService ==
    /\ pc = "idle" /\ ~req.applied
    /\ PriceDone([op |-> "bookingService",
                  summary |-> bookingServicePricing(req.basePrice, req.guests)])

PriceNext ==
    \/ ApplyCalculateDiscount
    \/ ApplyBookingPricing
    \/ ApplyCheckoutPage
    \/ ApplyBookingService

PriceSpec == PriceInit /\ [][PriceNext]_vars

(* ======================================================================= *)
(* Properties                                                              *)
(* ======================================================================= *)
Done(r) == pc[r] = "done"

Creates == {r \in Reqs : req[r].op = "create"}

\* A createBooking call that was answered 201 and whose booking is not
\* cancelled.
StandingCreates ==
    {r \in Creates : Done(r) /\ res[r].status = 201
                     /\ db.bookings[res[r].seen].status # "cancelled"}

RECURSIVE GuestSum(_)
GuestSum(S) ==
    IF S = {} THEN 0
    ELSE LET r == CHOOSE x \in S : TRUE IN req[r].guests + GuestSum(S \ {r})

\* The answer names a storage fault: a rejected read, write or commit, or a
\* write conflict.
StorageFault(r) ==
    res[r].kind = "internal" /\ res[r].errors \in {<<"storage error">>, <<"WriteConflict">>}

C2_SuccessPath ==
    \A r \in Creates :
        (Done(r) /\ res[r].kind = "internal") => StorageFault(r)

\* The answer is one of the ways the handler turns a call down for the
\* state of the slot or the time, before it looks at the promo code.
SlotRejection(r) == res[r].kind \in {"unavailable", "insufficient_capacity", "deadline"}

\* C3: two createBooking calls race on the slot, each asking for a party that
\* fits the available spots alone but not together with the other. Exactly
\* one is answered with success and the other with an insufficient-capacity
\* or conflict kind: the first to be answered is not turned down with another
\* kind while the other is in flight, and once both are answered exactly one
\* has succeeded.
C3_Racing(r, q) ==
    /\ r # q /\ r \in Creates /\ q \in Creates
    /\ req[r].code = NoCode /\ req[q].code = NoCode
    /\ db0.slot.isAvailable /\ ~pastDeadline
    /\ req[r].guests <= availableSpots(db0.slot)
    /\ req[q].guests <= availableSpots(db0.slot)
    /\ req[r].guests + req[q].guests > availableSpots(db0.slot)
    /\ db.slot.bookedSlots >= db0.slot.bookedSlots

C3_ExactlyOneWins ==
    \A r, q \in Reqs :
        (C3_Racing(r, q) /\ Done(r) /\ res[r].errors # <<"storage error">>) =>
            /\ Active(q) =>
                 res[r].status = 201 \/ res[r].kind \in {"insufficient_capacity", "conflict"}
            /\ (Done(q) /\ res[q].errors # <<"storage error">>) =>
                 \/ res[r].status = 201
                      /\ res[q].kind \in {"insufficient_capacity", "conflict"}
                 \/ res[q].status = 201
                      /\ res[r].kind \in {"insufficient_capacity", "conflict"}

RECURSIVE ActiveGuests(_, _)
\* The guests of the bookings among S that are persisted and not cancelled.
ActiveGuests(bookings, S) ==
    IF S = {} THEN 0
    ELSE LET b == CHOOSE x \in S : TRUE IN
         (IF bookings[b].exists /\ bookings[b].status # "cancelled"
            THEN bookings[b].guests ELSE 0)
         + ActiveGuests(bookings, S \ {b})

\* C4: slot counter consistency. In every committed state the slot's
\* bookedSlots is its initial value plus the guests of the persisted bookings
\* that are not cancelled, less the guests of those that stood at the start.
C4_CounterConsistent ==
    db.slot.bookedSlots =
        db0.slot.bookedSlots + ActiveGuests(db.bookings, Refs)
                             - ActiveGuests(db0.bookings, Refs)

\* A booking of the start has been cancelled and committed, and a
\* createBooking call has failed midway, after its promo redemption.
C4_Witness ==
    /\ db0.bookings["B1"].status = "confirmed"
    /\ db.bookings["B1"].status = "cancelled"
    /\ \E r \in Creates :
         /\ Done(r) /\ req[r].code = PromoName
         /\ res[r].errors = <<"Booking validation failed">>

\* The promo code's total usage is within its total limit, when it has one.
WithinTotal(promo) ==
    promo.limitTotal # NullLimit => promo.total <= promo.limitTotal

\* C5: global promo cap. The committed promo code, and the promo code every
\* open transaction would commit, has currentUsage.total <= usageLimit.total
\* when the limit is set.
C5_GlobalCap ==
    /\ WithinTotal(db.promo)
    /\ \A r \in Reqs : Active(r) => WithinTotal(Committed(r).promo)

\* A transaction has redeemed the last use the limit allows.
C5_Witness ==
    \E r \in Reqs :
        /\ "promo" \in written[r]
        /\ mem[r].promo.limitTotal # NullLimit
        /\ mem[r].promo.total = mem[r].promo.limitTotal

\* C6: a promo code with usageLimit.total = N and no prior usage, and N+K
\* racing createBooking calls by distinct users with room on the slot for
\* all: exactly N are answered with success and K with a conflict or
\* promo-invalid kind (here N = 1, K = 1).
C6_Racing(r, q) ==
    /\ r # q /\ r \in Creates /\ q \in Creates
    /\ req[r].code = PromoName /\ req[q].code = PromoName
    /\ req[r].user # req[q].user
    /\ db0.promo.isActive /\ db0.promo.limitTotal = 1 /\ db0.promo.total = 0
    /\ db0.slot.isAvailable /\ ~pastDeadline
    /\ req[r].guests + req[q].guests <= availableSpots(db0.slot)

C6_ExactlyNRedeem ==
    \A r, q \in Reqs :
        (C6_Racing(r, q) /\ Done(r) /\ res[r].errors # <<"storage error">>) =>
            /\ Active(q) =>
                 res[r].status = 201 \/ res[r].kind \in {"conflict", "promo_invalid"}
            /\ (Done(q) /\ res[q].errors # <<"storage error">>) =>
                 \/ res[r].status = 201 /\ res[q].kind \in {"conflict", "promo_invalid"}
                 \/ res[q].status = 201 /\ res[r].kind \in {"conflict", "promo_invalid"}

PerUserReason == "You have already used this promo code the maximum number of times"

InSeq(x, sq) == \E i \in 1..Len(sq) : sq[i] = x

\* C7: per-user promo cap. No user's redemption count exceeds
\* usageLimit.perUser; with perUser = 1 a user's first redemption succeeds,
\* and a later attempt by the same user is turned down with the per-user
\* reason and leaves the counters as they were.
C7_PerUserCap ==
    /\ \A u \in Users : db.promo.byUser[u] <= db.promo.perUser
    /\ \A r \in Creates :
         (Done(r) /\ req[r].code = PromoName /\ db0.promo.perUser = 1
            /\ ~SlotRejection(r) /\ ~StorageFault(r)) =>
              IF db0.promo.byUser[req[r].user] = 0 /\ isCurrentlyValid(db0.promo)
                THEN res[r].status = 201
                ELSE /\ res[r].kind = "promo_invalid"
                     /\ db0.promo.byUser[req[r].user] >= 1 =>
                          InSeq(PerUserReason, res[r].errors)
                     /\ db.promo = db0.promo

\* A createBooking attempt ends in failure after it has started its
\* transaction and passed the checks on the slot.
FailsMidway(r) ==
    /\ req[r].op = "create" /\ Active(r)
    /\ pc'[r] = "done" /\ res'[r].status # 201

\* C8: atomic rollback. When a createBooking attempt fails after it has
\* started its transaction, the committed slot, promo code and bookings are
\* left as the step found them, and every document that no other transaction
\* has committed since the attempt began is what the attempt read at its
\* start.
C8_AtomicRollback ==
    [][\A r \in Reqs :
         FailsMidway(r) =>
            /\ db' = db
            /\ \A d \in Docs \ stale[r] : Doc(db', d) = Doc(snap[r], d)]_vars

\* An attempt has failed after its promo redemption was written, and the
\* promo code is as it was.
C8_Witness ==
    \E r \in Creates :
        /\ Done(r) /\ req[r].code = PromoName
        /\ res[r].errors = <<"Booking validation failed">>
        /\ db.promo = db0.promo /\ db.slot = db0.slot /\ db.bookings = db0.bookings

\* C9: isolation of in-flight bookings. What the other operations read is
\* the committed state, and the committed state holds no write of an open
\* transaction: every document an open transaction has written is, as
\* committed, what that transaction read at its start.
C9_Isolation ==
    \A r \in Reqs :
        Active(r) => \A d \in written[r] : Doc(db, d) = Doc(snap[r], d)

\* validatePromoCode has answered a call that arrived while a createBooking
\* attempt stood between its promo redemption and its booking save.
C9_Witness ==
    \E r, q \in Reqs :
        /\ r < q
        /\ req[r].op = "create" /\ pc[r] = "saveBooking" /\ "promo" \in written[r]
        /\ req[q].op = "validate" /\ Done(q) /\ res[q].status = 200
        /\ mem[r].promo.total = db.promo.total + 1

\* The step writes r's promo redemption.
RedeemsPromo(r) == "promo" \in written'[r] /\ "promo" \notin written[r]

C11_StatusConfirmed ==
    \A r \in Creates :
        /\ pc[r] = "saveBooking" =>
             NewBooking(req[r], mem[r].slot, mem[r].promo).status = "confirmed"
        /\ (Done(r) /\ res[r].status = 201) =>
             db.bookings[res[r].seen].status = "confirmed"

Cancels == {r \in Reqs : req[r].op = "cancel"}

\* The booking of the start as a cancellation by the user leaves it.
CancelledByUser(b0, b) ==
    /\ b.status = "cancelled"
    /\ b.cancellationDetails.cancelledAt = "now"
    /\ b.cancellationDetails.cancelledBy = "user"
    /\ b.cancellationDetails.cancellationReason # "-"
    /\ [b EXCEPT !.status = b0.status,
                 !.cancellationDetails = b0.cancellationDetails] = b0

\* C12: a successful cancelBooking of a booking with g guests decreases the
\* slot's bookedSlots by exactly g and sets the booking's status to cancelled
\* with cancellationDetails (time, actor, reason) populated, and the two
\* changes commit together or not at all: in every committed state either
\* both are there, and a cancelBooking call was answered with success, or
\* neither is.
C12_CancelAtomic ==
    LET b0 == db0.bookings["B1"]
        b == db.bookings["B1"]
        succeeded == \E r \in Cancels : Done(r) /\ res[r].status = 200
    IN  IF succeeded
          THEN /\ CancelledByUser(b0, b)
               /\ db.slot.bookedSlots = db0.slot.bookedSlots - b0.guests
          ELSE b = b0 /\ db.slot = db0.slot

\* One cancelBooking call of a booking with two guests has committed and
\* another has been answered with an error of the storage.
C12_Witness ==
    \E r, q \in Cancels :
        /\ Done(r) /\ res[r].status = 200
        /\ Done(q) /\ res[q].status = 500
        /\ db0.bookings["B1"].guests = 2
        /\ db.slot.bookedSlots = db0.slot.bookedSlots - 2
        /\ db.bookings["B1"].status = "cancelled"

\* A createBooking attempt for as many guests as the cancelled booking had,
\* begun after the cancellation of a booking on the full slot has committed.
FollowsCancellation(r) ==
    /\ r \in Creates /\ Active(r)
    /\ db0.slot.bookedSlots = db0.slot.totalCapacity
    /\ db0.bookings["B1"].status \in {"pending", "confirmed"}
    /\ snap[r].bookings["B1"].status = "cancelled"
    /\ req[r].guests = db0.bookings["B1"].guests
    /\ req[r].code = NoCode

\* C13: cancellation reopens capacity. After the slot was full and one of
\* its bookings with g guests was cancelled before the deadline,
\* availableSpots is g, and a following createBooking for g guests on the
\* slot succeeds: it ends with success unless the storage fails it.
C13_ReopensCapacity ==
    [][\A r \in Reqs :
         FollowsCancellation(r) =>
            /\ availableSpots(snap[r].slot) = req[r].guests
            /\ pc'[r] = "done" =>
                 \/ res'[r].status = 201
                 \/ res'[r].errors \in {<<"storage error">>, <<"WriteConflict">>}]_vars

\* C14: cancelBooking succeeds only for a booking whose status is pending or
\* confirmed; for a booking in another status (cancelled, completed,
\* refunded) it fails and leaves the booking and the slot's bookedSlots as
\* they were.
C14_OnlyPendingOrConfirmed ==
    \A r \in Cancels :
        (Done(r) /\ db0.bookings[req[r].ref].exists
           /\ db0.bookings[req[r].ref].status \notin {"pending", "confirmed"}) =>
            /\ res[r].status # 200
            /\ db.bookings[req[r].ref] = db0.bookings[req[r].ref]
            /\ db.slot.bookedSlots = db0.slot.bookedSlots

\* The step is the arrival of a createBooking call on the slot or of a
\* cancelBooking call of a booking on it, up to the answer or the first
\* write, at a time past the slot's cancellationDeadline.
ArrivesPastDeadline(r) ==
    /\ pastDeadline
    /\ pc[r] = "idle" /\ pc'[r] # "idle"
    /\ \/ req'[r].op = "create"
       \/ req'[r].op = "cancel" /\ db.bookings[req'[r].ref].exists

\* The call is turned down, by the handler or by a failure of the storage,
\* and the committed documents are left as they are.
TurnedDown(r) ==
    /\ pc'[r] = "done"
    /\ res'[r].status \in {400, 404, 500}
    /\ db' = db

\* C15 as stated: past the deadline every createBooking on the slot and
\* every cancelBooking of a booking on it is rejected with a deadline error,
\* and bookedSlots, the booking statuses and the promo counters are unchanged.
C15_DeadlineRejectsAll ==
    [][\A r \in Reqs :
         ArrivesPastDeadline(r) =>
            /\ TurnedDown(r)
            /\ res'[r].kind = "deadline" \/ res'[r].errors = <<"storage error">>]_vars

\* No check that the handler makes before the deadline check turns the call
\* down: the slot is available with room for the party, or the booking is
\* neither cancelled nor completed.
PassesEarlierChecks(q) ==
    IF q.op = "create"
      THEN db.slot.isAvailable /\ availableSpots(db.slot) >= q.guests
      ELSE db.bookings[q.ref].status \notin {"cancelled", "completed"}

\* C15 as amended: past the deadline every such call is rejected and changes
\* nothing, and the error is the deadline error whenever no earlier check of
\* the handler turns the call down.
C15_DeadlineRejects ==
    [][\A r \in Reqs :
         ArrivesPastDeadline(r) =>
            /\ TurnedDown(r)
            /\ PassesEarlierChecks(req'[r]) =>
                 res'[r].kind = "deadline" \/ res'[r].errors = <<"storage error">>]_vars

\* Past the deadline a createBooking call and a cancelBooking call have both
\* been rejected with the deadline error.
C15_Witness ==
    /\ pastDeadline
    /\ \E r \in Creates, q \in Cancels :
         /\ Done(r) /\ res[r].kind = "deadline"
         /\ Done(q) /\ res[q].kind = "deadline"
         /\ db = db0

\* The persisted bookings, of any status, that carry the promo code, and
\* those among them made by user u.
WithCode(bookings) == {b \in Refs : bookings[b].exists /\ bookings[b].code = PromoName}

WithCodeBy(bookings, u) == {b \in WithCode(bookings) : bookings[b].user = u}

\* C16: promo usage is consistent with the booking records and is not
\* reversed by cancellation. In every committed state the code's
\* currentUsage.total is its initial value plus the number of persisted
\* bookings, cancelled ones included, that carry the code and were not there
\* at the start, and likewise each user's count.
C16_UsageNotReversed ==
    /\ db.promo.total = db0.promo.total + Cardinality(WithCode(db.bookings))
                                        - Cardinality(WithCode(db0.bookings))
    /\ \A u \in Users :
         db.promo.byUser[u] = db0.promo.byUser[u]
                                + Cardinality(WithCodeBy(db.bookings, u))
                                - Cardinality(WithCodeBy(db0.bookings, u))

\* A booking that carries the promo code has been cancelled, and the code's
\* usage still counts it.
C16_Witness ==
    \E r \in Cancels :
        /\ Done(r) /\ res[r].status = 200
        /\ db.bookings["B1"].code = PromoName
        /\ db.bookings["B1"].status = "cancelled"
        /\ db0.bookings["B1"].status = "pending"
        /\ db.promo.total = db0.promo.total
        /\ db.promo.byUser[db.bookings["B1"].user] >= 1

\* The rules the promo code fails for the user, among those that the codes
\* considered can fail: the active flag, the global usage cap and the
\* per-user cap.
FailedRules(promo, userEmail) ==
    (IF ~promo.isActive THEN 1 ELSE 0)
    + (IF promo.limitTotal # NullLimit /\ promo.total >= promo.limitTotal THEN 1 ELSE 0)
    + (IF promo.byUser[userEmail] >= promo.perUser THEN 1 ELSE 0)

\* C17: promo validation reports every violated rule, not only the first:
\* the list of reasons a call is turned down with has one reason for each
\* rule the code fails.
C17_AllReasons ==
    \A r \in Reqs :
        (Done(r) /\ req[r].op \in {"create", "validate"}
           /\ res[r].kind = "promo_invalid") =>
            Len(res[r].errors) = FailedRules(db0.promo, req[r].user)

\* The discount as C18 words it, in the unit: the percentage of the order
\* value or the fixed value, clamped to maximumDiscountAmount whenever that
\* field is set, then to the order value, and rounded to the unit.
ClampedDiscount(promo, orderValue) ==
    LET raw == IF promo.discountType = "percentage"
                 THEN orderValue * promo.discountValue
                 ELSE promo.discountValue * 100
        capped == IF promo.maximumDiscountAmount # NullAmount
                    THEN Min(raw, promo.maximumDiscountAmount * 100)
                    ELSE raw
    IN  Round(Min(capped, orderValue * 100), 100)

\* C18: calculateDiscount(orderValue) is the percentage or fixed value,
\* clamped to maximumDiscountAmount whenever that is set (0 included), then
\* to orderValue; the result d satisfies 0 <= d <= orderValue.
C18_DiscountClamped ==
    res.op = "calculateDiscount" =>
        /\ res.discountAmount = ClampedDiscount(req, res.orderValue)
        /\ 0 <= res.discountAmount
        /\ res.discountAmount <= res.orderValue

\* computePrice of the specification, the discount and the results in
\* hundredths of the unit.
computePrice(basePrice, numberOfGuests, discountAmount) ==
    LET subtotal == basePrice * numberOfGuests * 100
        discount == Min(discountAmount, subtotal)
        taxableAmount == subtotal - discount
        tax == (taxableAmount * TaxPercent) \div 100
    IN  [subtotal |-> subtotal, discount |-> discount, tax |-> tax,
         total |-> taxableAmount + tax]

\* C19: the amount charged follows computePrice: the final amount stored by
\* createBooking and the total shown at checkout both equal the total that
\* computePrice gives for the same base price, guests and discount.
C19_ChargedAmount ==
    /\ res.op = "createBooking" =>
         res.pricing.finalAmount * 100 =
            computePrice(req.basePrice, req.guests,
                         res.pricing.discountAmount * 100).total
    /\ res.op = "checkout" =>
         res.summary.total =
            computePrice(req.basePrice, req.guests, res.summary.discount).total

\* What a booking keeps of its price and promo code.
Snapshot20(b) == <<b.pricing, b.code, b.promoCode>>

\* C20: pricing snapshot immutability. Once a booking is persisted, its
\* pricing (basePrice, totalAmount, discountAmount, finalAmount, currency)
\* and its applied promo snapshot are not changed by any later step:
\* cancelBooking, other bookings on the slot, a change of the slot's price or
\* of the promo code's parameters.
C20_PricingImmutable ==
    [][\A b \in Refs :
         db.bookings[b].exists =>
            /\ db'.bookings[b].exists
            /\ Snapshot20(db'.bookings[b]) = Snapshot20(db.bookings[b])]_vars

\* A booking made with the promo code has been cancelled after the slot's
\* price and the promo code's discount were changed, and keeps its pricing.
C20_Witness ==
    /\ db.slot.price = NewSlotPrice
    /\ db.promo.discountValue = NewDiscountValue
    /\ db.bookings["B1"].status = "cancelled"
    /\ db0.bookings["B1"].status = "pending"
    /\ db.bookings["B1"].code = PromoName
    /\ db.bookings["B1"].pricing.discountAmount > 0
    /\ db.bookings["B1"].pricing = db0.bookings["B1"].pricing

(* ======================================================================= *)
(* The request body of createBooking (controller lines 13-42)              *)
(* ======================================================================= *)
\* E-mail addresses are sequences of characters; <<>> is an absent or empty one.
Emails ==
    {<<>>,
     <<"a", "@", "b", ".", "c">>,
     <<"a", "b", ".", "c">>,
     <<"a", "@", "b">>,
     <<"a", " ", "@", "b", ".", "c">>}

\* [^\s@]+ : a non-empty run without white space and without @.
Plain(s, from, to) ==
    /\ from <= to
    /\ \A k \in from..to : s[k] \notin {" ", "@"}

\* /^[^\s@]+@[^\s@]+\.[^\s@]+$/.test(email)
emailRegexTest(email) ==
    \E i, j \in 1..Len(email) :
        /\ email[i] = "@" /\ email[j] = "."
        /\ Plain(email, 1, i - 1)
        /\ Plain(email, i + 1, j - 1)
        /\ Plain(email, j + 1, Len(email))

\* The bodies that are tried. numberOfGuests 0 is falsy like an absent one;
\* a body without user has none of the user's fields.
CreateBodies ==
    {b \in [experienceId : {"", OwnerExperience},
            timeSlotId : {"", SlotId},
            hasUser : BOOLEAN,
            firstName : {"", "Ann"},
            lastName : {"", "Lee"},
            email : Emails,
            numberOfGuests : {0 - 1, 0, MinGuestsPerBooking, MaxGuestsPerBooking,
                              MaxGuestsPerBooking + 1}] :
        ~b.hasUser => (b.firstName = "" /\ b.lastName = "" /\ b.email = <<>>)}

\* The checks in the order of the code; each throws one ApiError(400, message).
validateCreateInput(b) ==
    IF b.experienceId = "" \/ b.timeSlotId = "" \/ ~b.hasUser \/ b.numberOfGuests = 0
      THEN <<"Missing required booking information">>
    ELSE IF b.firstName = "" \/ b.lastName = "" \/ b.email = <<>>
      THEN <<"User information is incomplete">>
    ELSE IF ~emailRegexTest(b.email)
      THEN <<"Invalid email format">>
    ELSE IF b.numberOfGuests < MinGuestsPerBooking \/ b.numberOfGuests > MaxGuestsPerBooking
      THEN <<"Number of guests must be between 1 and 20">>
    ELSE <<>>

InputInit ==
    /\ req \in CreateBodies
    /\ res = NoRes
    /\ pc = "idle"
    /\ db = NoMem /\ db0 = NoMem /\ mem = NoMem /\ snap = NoMem
    /\ pastDeadline = FALSE /\ written = {} /\ stale = {}

\* throw new ApiError(400, ...) before startSession (lines 23-42).
InputRejected ==
    /\ pc = "idle"
    /\ validateCreateInput(req) # <<>>
    /\ pc' = "done"
    /\ res' = [status |-> 400, kind |-> "validation",
               errors |-> validateCreateInput(req), seen |-> "-"]
    /\ UNCHANGED <<db, db0, pastDeadline, req, snap, mem, written, stale>>

\* mongoose.startSession(); session.startTransaction() (lines 44-45).
InputAccepted ==
    /\ pc = "idle"
    /\ validateCreateInput(req) = <<>>
    /\ pc' = "load"
    /\ snap' = db
    /\ UNCHANGED <<db, db0, pastDeadline, req, mem, written, stale, res>>

InputNext ==
    \/ InputRejected
    \/ InputAccepted

InputSpec == InputInit /\ [][InputNext]_vars

\* The fields of a body that are invalid: absent ids, absent names, absent or
\* malformed e-mail, numberOfGuests outside 1..20.
InvalidFields(b) ==
    {f \in {"experienceId", "timeSlotId", "firstName", "lastName", "email",
            "numberOfGuests"} :
        \/ f = "experienceId" /\ b.experienceId = ""
        \/ f = "timeSlotId" /\ b.timeSlotId = ""
        \/ f = "firstName" /\ b.firstName = ""
        \/ f = "lastName" /\ b.lastName = ""
        \/ f = "email" /\ ~emailRegexTest(b.email)
        \/ f = "numberOfGuests" /\ (b.numberOfGuests < MinGuestsPerBooking
                                     \/ b.numberOfGuests > MaxGuestsPerBooking)}

\* The fields a message of the handler can be about.
FieldsOf(message) ==
    CASE message = "Missing required booking information" ->
             {"experienceId", "timeSlotId", "firstName", "lastName", "email",
              "numberOfGuests"}
      [] message = "User information is incomplete" -> {"firstName", "lastName", "email"}
      [] message = "Invalid email format" -> {"email"}
      [] message = "Number of guests must be between 1 and 20" -> {"numberOfGuests"}

\* C21: a createBooking body with an absent name or e-mail, a malformed
\* e-mail or numberOfGuests outside 1..20 is answered 400 before a
\* transaction is started, and the error is about every invalid field of the
\* body, not only the first one found.
C21_AllInvalidFields ==
    /\ (pc = "load") => InvalidFields(req) = {}
    /\ (pc = "done") =>
         /\ res.status = 400 /\ db = db0
         /\ InvalidFields(req) \subseteq
              UNION {FieldsOf(res.errors[k]) : k \in 1..Len(res.errors)}

(* ======================================================================= *)
(* Termination of the handlers                                             *)
(* ======================================================================= *)
\* The awaited calls of a handler in the order of its code: createBooking
\* reads, redeems the promo code, saves the booking, saves the slot, commits;
\* cancelBooking reads, saves the booking, saves the slot, commits.
Rank(p) ==
    CASE p = "idle" -> 0
      [] p = "promo" -> 1
      [] p \in {"saveBooking", "cancelBooking"} -> 2
      [] p = "saveSlot" -> 3
      [] p = "commit" -> 4
      [] p = "done" -> 5

\* The steps of request r once it has arrived.
HandlerStep(r) ==
    \/ CreatePromo(r)
    \/ CreateSaveBooking(r)
    \/ CancelSaveBooking(r)
    \/ TimeSlotSave(r)
    \/ CommitTransaction(r)

\* Every awaited call of a handler is answered: the event loop runs each
\* continuation once the database has answered it.
LiveSpec == Spec /\ \A r \in Reqs : WF_vars(HandlerStep(r))

\* Request r ends here with its transaction rolled back / committed.
RollsBack(r) ==
    /\ pc[r] # "done" /\ pc'[r] = "done"
    /\ res'[r].kind # "ok"
    /\ ~(pc[r] = "commit" /\ res'[r].seen # "-")

Commits(r) ==
    /\ pc[r] = "commit" /\ pc'[r] = "done"
    /\ res'[r].seen # "-"

\* C22: an invocation of createBooking or cancelBooking runs each of its
\* steps at most once and in order, with no retry after a business failure or
\* a write conflict; it ends exactly once, either committed (its writes
\* become the committed documents) or rolled back (the committed documents
\* stay as they are), with its session ended; and every invocation that has
\* arrived ends, whatever the other invocations do.
C22_NoRetryTerminates ==
    /\ [][\A r \in Reqs :
            /\ pc'[r] # pc[r] => Rank(pc'[r]) > Rank(pc[r])
            /\ (pc[r] # "done" /\ pc'[r] = "done"
                  /\ req'[r].op \in {"create", "cancel"}) =>
                 /\ RollsBack(r) # Commits(r)
                 /\ RollsBack(r) => db' = db
                 /\ Commits(r) => db' = Committed(r)
                 /\ mem'[r] = NoMem /\ snap'[r] = NoMem /\ written'[r] = {}]_vars
    /\ \A r \in Reqs : (pc[r] # "idle") ~> (pc[r] = "done")

\* Two invocations have ended, one rolled back on a write conflict and one
\* committed.
C22_Witness ==
    \E r, q \in Reqs :
        /\ pc[r] = "done" /\ res[r].errors = <<"WriteConflict">>
        /\ pc[q] = "done" /\ res[q].kind = "ok" /\ req[q].op = "cancel"

\* C23: no two persisted bookings share a bookingReference, and no
\* createBooking is failed over its reference: a generated reference that
\* collides with an existing one is replaced by another one and the save is
\* tried again.
C23_UniqueReferenceRetried ==
    /\ \A a, b \in Refs :
         (db.bookings[a].exists /\ db.bookings[b].exists /\ a # b)
            => db.bookings[a].reference # db.bookings[b].reference
    /\ \A r \in Reqs :
         (pc[r] = "done" /\ req[r].op = "create")
            => res[r].errors \notin {<<"duplicate key">>, <<"Booking validation failed">>}

\* The cancellation of r is about to release more guests than the slot has
\* booked.
OverReleases(r) ==
    /\ pc[r] = "saveSlot" /\ req[r].op = "cancel"
    /\ mem[r].bookings[req[r].ref].guests > mem[r].slot.bookedSlots

\* C24: a cancelBooking whose booking has more guests than the slot's
\* bookedSlots fails with the over-release error; the cancellation is rolled
\* back, so the booking's status and bookedSlots stay what they were; and
\* bookedSlots never goes below 0, committed or inside a transaction.
C24_OverReleaseRejected ==
    [][/\ \A r \in Reqs :
            (OverReleases(r) /\ pc'[r] # pc[r]) =>
                /\ pc'[r] = "done"
                /\ res'[r].status = 500
                /\ res'[r].errors = <<"Cannot cancel more slots than booked">>
                /\ db' = db
                /\ db'.bookings[req[r].ref].status # "cancelled"
       /\ db'.slot.bookedSlots >= 0
       /\ \A r \in Reqs : Active(r)' => mem'[r].slot.bookedSlots >= 0]_vars

\* A cancellation was turned down as an over-release and its booking still
\* stands with the status it had.
C24_Witness ==
    \E r \in Reqs :
        /\ pc[r] = "done" /\ req[r].op = "cancel"
        /\ res[r].errors = <<"Cannot cancel more slots than booked">>
        /\ db.bookings[req[r].ref].status = "confirmed"
        /\ db.bookings[req[r].ref].guests > db.slot.bookedSlots

(* ======================================================================= *)
(* The identity of promo codes and of their users (promoCode.model.js)     *)
(* ======================================================================= *)
\* Texts are sequences of characters.
UpperCaseOf(c) ==
    CASE c = "s" -> "S" [] c = "a" -> "A" [] c = "v" -> "V" [] c = "e" -> "E"
      [] c = "u" -> "U" [] c = "x" -> "X" [] c = "i" -> "I" [] c = "o" -> "O"
      [] OTHER -> c

LowerCaseOf(c) ==
    CASE c = "S" -> "s" [] c = "A" -> "a" [] c = "V" -> "v" [] c = "E" -> "e"
      [] c = "U" -> "u" [] c = "X" -> "x" [] c = "I" -> "i" [] c = "O" -> "o"
      [] OTHER -> c

toUpperCase(s) == [k \in DOMAIN s |-> UpperCaseOf(s[k])]

toLowerCaseKept(s) == s

toLowerCase(s) == [k \in DOMAIN s |-> LowerCaseOf(s[k])]

\* The promo codes of the collection, stored in upper case (schema: uppercase).
StoredCodes == {<<"S", "A", "V", "E", "1", "0">>, <<"S", "A", "V", "E", "2", "0">>}

CodeTexts ==
    StoredCodes
    \cup {<<"s", "a", "v", "e", "1", "0">>, <<"S", "a", "v", "e", "1", "0">>,
          <<"s", "A", "v", "E", "1", "0">>, <<"s", "a", "v", "e", "2", "0">>,
          <<"S", "A", "V", "E", "1">>, <<"s", "a", "v", "e", "3", "0">>}

EmailTexts ==
    {<<"u", "1", "@", "x", ".", "i", "o">>, <<"U", "1", "@", "X", ".", "I", "O">>,
     <<"U", "1", "@", "x", ".", "i", "o">>, <<"u", "2", "@", "x", ".", "i", "o">>,
     <<"U", "2", "@", "x", ".", "i", "o">>}

NotFound == <<>>

\* PromoCode.findByCode(code): findOne({ code: code.toUpperCase() }).
findByCode(code) ==
    IF toUpperCase(code) \in StoredCodes THEN toUpperCase(code) ELSE NotFound

\* usePromoCode(userEmail) on the usage of a promo code document: the total
\* and the byUser array of { email, count }.
usePromoCodeByUser(usage, userEmail) ==
    LET found == {k \in 1..Len(usage.byUser) :
                     usage.byUser[k].email = toLowerCase(userEmail)}
    IN  [total |-> usage.total + 1,
         byUser |-> IF found # {}
                      THEN LET k == CHOOSE k \in found : \A j \in found : k <= j
                           IN  [usage.byUser EXCEPT ![k].count = @ + 1]
                      ELSE Append(usage.byUser,
                                  [email |-> toLowerCase(userEmail), count |-> 1])]

IdentityInit ==
    /\ req \in [code : CodeTexts, emails : EmailTexts \X EmailTexts]
    /\ db = [total |-> 0, byUser |-> <<>>]
    /\ db0 = db
    /\ res = NotFound
    /\ pc = "idle"
    /\ mem = NoMem /\ snap = NoMem
    /\ pastDeadline = FALSE /\ written = {} /\ stale = {}

\* The promo code is looked up by the text of the request.
ApplyFindByCode ==
    /\ pc = "idle"
    /\ res' = findByCode(req.code)
    /\ pc' = IF findByCode(req.code) = NotFound THEN "notFound" ELSE "found"
    /\ UNCHANGED <<db, db0, pastDeadline, req, snap, mem, written, stale>>

\* The code that was found is redeemed, by the first user and then by the
\* second.
ApplyUsePromoCode ==
    /\ pc \in {"found", "usedOnce"}
    /\ db' = usePromoCodeByUser(db, req.emails[IF pc = "found" THEN 1 ELSE 2])
    /\ pc' = IF pc = "found" THEN "usedOnce" ELSE "usedTwice"
    /\ UNCHANGED <<db0, pastDeadline, req, snap, mem, written, stale, res>>

IdentityNext ==
    \/ ApplyFindByCode
    \/ ApplyUsePromoCode

IdentitySpec == IdentityInit /\ [][IdentityNext]_vars

\* Two texts that differ at most in the case of their letters.
Swapped(c) == IF UpperCaseOf(c) # c THEN UpperCaseOf(c) ELSE LowerCaseOf(c)

SameButCase(s, t) ==
    /\ Len(s) = Len(t)
    /\ \A k \in 1..Len(s) : s[k] = t[k] \/ s[k] = Swapped(t[k])

\* C25: a promo code is found by any letter-casing of its text, and by no
\* other text; redemptions under e-mail addresses that differ only in letter
\* case are counted in one per-user entry.
C25_CaseInsensitive ==
    /\ pc # "idle" =>
         \A code \in StoredCodes : (res = code) <=> SameButCase(req.code, code)
    /\ pc = "usedTwice" =>
         /\ db.total = 2
         /\ IF SameButCase(req.emails[1], req.emails[2])
              THEN Len(db.byUser) = 1 /\ db.byUser[1].count = 2
              ELSE Len(db.byUser) = 2 /\ \A k \in 1..2 : db.byUser[k].count = 1

\* A code looked up in lower case was redeemed twice under two casings of one
\* address.
C25_Witness ==
    /\ pc = "usedTwice"
    /\ req.code \notin StoredCodes
    /\ req.emails[1] # req.emails[2]
    /\ SameButCase(req.emails[1], req.emails[2])
    /\ Len(db.byUser) = 1

\* The calls of cancelBooking on reference b that were answered with success.
CancelledOk(b) ==
    {r \in Reqs : pc[r] = "done" /\ req[r].op = "cancel" /\ req[r].ref = b
                  /\ res[r].status = 200}

\* C27: whatever the order or interleaving of the cancelBooking calls on one
\* reference, two concurrent calls that both read the booking as standing
\* included, bookedSlots is decreased by the booking's numberOfGuests at most
\* once and at most one of the calls reports success.
C27_NoDoubleRelease ==
    \A b \in Refs :
        /\ Cardinality(CancelledOk(b)) <= 1
        /\ db0.bookings[b].exists =>
             db0.slot.bookedSlots - db.slot.bookedSlots
                <= Cardinality(CancelledOk(b)) * db0.bookings[b].guests

\* Two calls that both read the booking as standing have ended: one
\* cancelled it and released its guests, the other was rejected on its write.
C27_Witness ==
    \E r, q \in Reqs :
        /\ r \in CancelledOk("B1")
        /\ pc[q] = "done" /\ req[q].op = "cancel" /\ req[q].ref = "B1"
        /\ res[q].errors = <<"WriteConflict">>
        /\ db.slot.bookedSlots = db0.slot.bookedSlots - db0.bookings["B1"].guests

(* ======================================================================= *)
(* The slot document under its methods (timeSlot.model.js 96-160)          *)
(* ======================================================================= *)
\* Slot documents as the collection may hold them: any capacity up to
\* Capacity + 1, any count up to the capacity, the flag either way.
SlotDocs ==
    {d \in [totalCapacity : 1..(Capacity + 1), bookedSlots : 0..(Capacity + 1),
            isAvailable : BOOLEAN, price : {SlotPrice}, specialPrice : {NullAmount}] :
        d.bookedSlots <= d.totalCapacity}

NoCall == [op |-> "-", n |-> 0, outcome |-> "-"]

SlotInit ==
    /\ db \in SlotDocs
    /\ db0 = db
    /\ res = NoCall
    /\ pc = "idle" /\ req = NoReq
    /\ mem = NoMem /\ snap = NoMem
    /\ pastDeadline = FALSE /\ written = {} /\ stale = {}

\* One call of a method of the slot: it throws, or the save's hook rejects,
\* or the document is saved as the hook leaves it.
SlotCall(op, n, throws, message, doc) ==
    /\ db' = IF throws \/ SlotPreSaveRejects(doc) THEN db ELSE SlotPreSave(doc)
    /\ res' = [op |-> op, n |-> n,
               outcome |-> IF throws THEN message
                           ELSE IF SlotPreSaveRejects(doc)
                             THEN "Booked slots cannot exceed total capacity"
                             ELSE "saved"]
    /\ UNCHANGED <<db0, pastDeadline, pc, req, snap, mem, written, stale>>

\* timeSlot.bookSlots(n)
ApplyBookSlots ==
    \E n \in 1..MaxGuests :
        SlotCall("bookSlots", n, bookSlotsThrows(db, n),
                 "Not enough available spots", bookSlots(db, n))

\* timeSlot.cancelBooking(n)
ApplyCancelSlots ==
    \E n \in 1..MaxGuests :
        SlotCall("cancelBooking", n, cancelSlotsThrows(db, n),
                 "Cannot cancel more slots than booked", cancelSlots(db, n))

SlotNext ==
    \/ ApplyBookSlots
    \/ ApplyCancelSlots

SlotSpec == SlotInit /\ [][SlotNext]_vars

\* C28: after every save of the slot by bookSlots or cancelBooking,
\* isAvailable is true exactly when bookedSlots < totalCapacity, whatever the
\* flag was before; and at all times availableSpots is totalCapacity -
\* bookedSlots and isFullyBooked holds exactly when availableSpots is 0.
C28_FlagTracksCapacity ==
    /\ res.outcome = "saved" => (db.isAvailable <=> db.bookedSlots < db.totalCapacity)
    /\ availableSpots(db) = db.totalCapacity - db.bookedSlots
    /\ isFullyBooked(db) <=> availableSpots(db) = 0

\* A slot whose flag was off although it had free spots has been saved by
\* cancelBooking and its flag is on; or a slot was filled by bookSlots and
\* its flag went off.
C28_Witness ==
    /\ res.outcome = "saved"
    /\ \/ /\ res.op = "cancelBooking"
          /\ ~db0.isAvailable /\ db0.bookedSlots < db0.totalCapacity
          /\ db.isAvailable
       \/ /\ res.op = "bookSlots"
          /\ db0.isAvailable /\ db.bookedSlots = db.totalCapacity
          /\ ~db.isAvailable

\* The booking document createBooking saves for the request of the state:
\* new Booking({...}) as pre('save') leaves it.
BookingBuilt ==
    BookingPreSave(
        NewBooking([guests |-> req.guests, user |-> "u1@x.io",
                    code |-> IF req.applied THEN PromoName ELSE NoCode],
                   [price |-> req.basePrice, specialPrice |-> NullAmount], req),
        "R1", TRUE)

\* C29: in every booking createBooking builds for saving, 0 <= discountAmount
\* <= totalAmount, totalAmount = basePrice * numberOfGuests and finalAmount =
\* totalAmount - discountAmount >= 0; discountAmount is 0 exactly when no
\* promo snapshot is stored or the code's discount computes to 0.
C29_PricingSound ==
    res.op = "createBooking" =>
        LET p == BookingBuilt.pricing IN
        /\ p = res.pricing
        /\ 0 <= p.discountAmount /\ p.discountAmount <= p.totalAmount
        /\ p.totalAmount = p.basePrice * req.guests
        /\ p.finalAmount = p.totalAmount - p.discountAmount
        /\ p.finalAmount >= 0
        /\ (p.discountAmount = 0) <=>
             \/ BookingBuilt.promoCode = NoPromoCode
             \/ calculateDiscount(req, p.totalAmount) = 0

\* A booking was priced with a fixed discount larger than its total: the
\* discount is the total and the final amount is 0.
C29_Witness ==
    /\ res.op = "createBooking"
    /\ req.applied /\ req.discountType = "fixed"
    /\ req.discountValue > req.basePrice * req.guests
    /\ req.basePrice > 0
    /\ res.pricing.discountAmount = res.pricing.totalAmount
    /\ res.pricing.finalAmount = 0

(* ======================================================================= *)
(* The client's rate limiter (api.ts 74-92)                                *)
(* ======================================================================= *)
MaxClock == 4          \* the clock runs from 0 to MaxClock
MaxCalls == 4          \* calls of isAllowed in one behaviour

Endpoints == {"/bookings", "/promo/validate"}

\* requests.filter(timestamp => now - timestamp < windowMs)
validRequestsShorter(requests, now, windowMs) ==
    LET Inside(timestamp) == now - timestamp < windowMs - 1
    IN  SelectSeq(requests, Inside)

validRequests(requests, now, windowMs) ==
    LET Inside(timestamp) == now - timestamp < windowMs
    IN  SelectSeq(requests, Inside)

\* rateLimiter.isAllowed: its answer, and the map it leaves.
isAllowed(requests, endpoint, now, limit, windowMs) ==
    ~(Len(validRequests(requests[endpoint], now, windowMs)) >= limit)

requestsAfter(requests, endpoint, now, limit, windowMs) ==
    IF isAllowed(requests, endpoint, now, limit, windowMs)
      THEN [requests EXCEPT
              ![endpoint] = Append(validRequests(requests[endpoint], now, windowMs), now)]
      ELSE requests

\* The state: db is rateLimiter.requests, pc the clock, req the limit and the
\* window of the calls, res the calls made so far with their answers.
RateInit ==
    /\ db = [e \in Endpoints |-> <<>>]
    /\ db0 = db
    /\ pc = 0
    /\ req \in [limit : 0..2, windowMs : 1..3]
    /\ res = <<>>
    /\ mem = NoMem /\ snap = NoMem
    /\ pastDeadline = FALSE /\ written = {} /\ stale = {}

\* Date.now() moves on.
ClockTicks ==
    /\ pc < MaxClock
    /\ pc' = pc + 1
    /\ UNCHANGED <<db, db0, pastDeadline, req, snap, mem, written, stale, res>>

\* The request interceptor asks isAllowed(config.url, limit, windowMs).
CallIsAllowed ==
    /\ Len(res) < MaxCalls
    /\ \E e \in Endpoints :
         /\ db' = requestsAfter(db, e, pc, req.limit, req.windowMs)
         /\ res' = Append(res, [endpoint |-> e, at |-> pc,
                                allowed |-> isAllowed(db, e, pc, req.limit,
                                                      req.windowMs)])
    /\ UNCHANGED <<db0, pastDeadline, pc, req, snap, mem, written, stale>>

RateNext ==
    \/ ClockTicks
    \/ CallIsAllowed

RateSpec == RateInit /\ [][RateNext]_vars

\* The calls on endpoint e answered true among the first n calls, at a time
\* from `from` to `to`.
AllowedCalls(e, n, from, to) ==
    {k \in 1..n : /\ res[k].endpoint = e /\ res[k].allowed
                  /\ from <= res[k].at /\ res[k].at <= to}

\* C30: for each endpoint, at most `limit` calls are answered true within any
\* span of time shorter than windowMs; a call answered false records nothing
\* (the map holds the times of the calls answered true that are still inside
\* the window of the last of them, and nothing else); and a call is answered
\* true exactly when fewer than `limit` calls answered true are inside its
\* window.
C30_RateLimiter ==
    /\ \A e \in Endpoints, s \in 0..MaxClock :
         Cardinality(AllowedCalls(e, Len(res), s, s + req.windowMs - 1)) <= req.limit
    /\ \A e \in Endpoints :
         LET all == AllowedCalls(e, Len(res), 0, MaxClock)
             last == IF all = {} THEN 0
                     ELSE res[CHOOSE k \in all : \A j \in all : j <= k].at
         IN  /\ Len(db[e]) = Cardinality(AllowedCalls(e, Len(res),
                                                      last - req.windowMs + 1, last))
             /\ \A k \in 1..Len(db[e]) :
                  \E j \in all : res[j].at = db[e][k]
    /\ \A k \in 1..Len(res) :
         res[k].allowed <=>
            Cardinality(AllowedCalls(res[k].endpoint, k - 1,
                                     res[k].at - req.windowMs + 1, res[k].at))
               < req.limit

\* A call on an endpoint was turned down and a later call on it was let
\* through, after the window had moved on.
C30_Witness ==
    \E i, j \in 1..Len(res) :
        /\ i < j
        /\ res[i].endpoint = res[j].endpoint
        /\ ~res[i].allowed /\ res[j].allowed
        /\ req.limit = 2

====
